---- MODULE Spec2Model ----
(***************************************************************************)
(* The streaming runtime provider of founder-os (RuntimeProviderInner):    *)
(* onNew appends a user message and a running assistant placeholder,       *)
(* opens an EventSource on the session stream, registers the text_delta,   *)
(* tool_call, tool_result and text listeners and the onerror handler, and  *)
(* awaits sendMessage.  Each listener mutates the closure state of its     *)
(* turn (contentItems, currentTextIndex) and rewrites the content of the   *)
(* assistant message whose id is the turn's assistantMessageId.            *)
(*                                                                         *)
(* JavaScript runs every listener to completion, so one listener call is   *)
(* one action.  React applies the functional setMessages updaters in the   *)
(* order they were queued, so the message list is updated in the action.   *)
(***************************************************************************)
EXTENDS Integers, Sequences, FiniteSets, TLC

VARIABLES
    messages,   \* useState<ThreadMessageLike[]>: the displayed message list
    isRunning,  \* useState(false): the running flag handed to the runtime
    turns,      \* one closure record per onNew call, in submission order
    lastEvent,  \* kind of the stream event most recently delivered, and to which turn
    nEvents,    \* number of stream events delivered so far
    log,        \* OrderingSpec: the stream events delivered, in delivery order
    sessionId,  \* useState<string | null>: the session shown
    sessions,   \* useState<Session[]>: the thread list, newest first
    origin,     \* the turn whose response the event most recently delivered belongs to
    keyed       \* RecordSpec: a turn of the keyed-map variant fed the same events

vars == <<messages, isRunning, turns, lastEvent, nEvents, log, sessionId, sessions, origin, keyed>>

---------------------------------------------------------------------------
(* Bounds of the model *)

MaxEvents == 4          \* stream events delivered to the one turn of Spec
MaxTurns == 2           \* submissions in SessionSpec
MaxSessionEvents == 1   \* stream events delivered in SessionSpec
MaxLog == 6             \* stream events delivered and logged in OrderingSpec
MaxRecord == 5          \* stream events delivered and logged in RecordSpec
MaxTitleEvents == 2     \* stream events delivered in TitleSpec
MaxSessions == 2        \* sessions in the thread list
MaxStoredTurns == 2     \* turns of a stored session in ReplaySpec
MaxPlainTurns == 2      \* submissions in PlainSpec

---------------------------------------------------------------------------
(* Values *)

\* An optional JavaScript value: absent (undefined) or present.
None == <<>>
Some(v) == <<v>>

\* A JSON object is the sequence of its <<key, value>> members.
EmptyObject == <<>>
QueryObject == << <<"q", "a">> >>

UserInputs == {"hi"}
DeltaTexts == {"x", "y"}
FinalTexts == {"", "final"}
ToolIds == {"A", "B"}
\* <<name, input>> of a tool_call payload; input may be missing
ToolRequests == {<<"search", Some(QueryObject)>>, <<"read", None>>}
\* <<content, is_error>> of a tool_result payload
ToolOutcomes == {<<"rA", FALSE>>, <<"rB", TRUE>>}
EventKinds == {"text_delta", "tool_call", "tool_result", "text"}

StatusRunning == [type |-> "running"]
StatusComplete == [type |-> "complete", reason |-> "stop"]
StatusError == [type |-> "incomplete", reason |-> "error"]

ErrorText == "Error: Failed to get response"

\* JSON.stringify(value, null, 2) of an object with string members.
RECURSIVE Members(_)
Members(obj) ==
    IF Len(obj) = 0 THEN ""
    ELSE "\n  \"" \o obj[1][1] \o "\": \"" \o obj[1][2] \o "\""
         \o (IF Len(obj) > 1 THEN "," ELSE "\n")
         \o Members(Tail(obj))

Stringify(obj) == "{" \o Members(obj) \o "}"

\* `user-${timestamp}` and `assistant-${timestamp}`
UserId(timestamp) == "user-" \o ToString(timestamp)
AssistantId(timestamp) == "assistant-" \o ToString(timestamp)

---------------------------------------------------------------------------
(* Stream events: kind and decoded payload.  ok = FALSE is a payload that  *)
(* JSON.parse rejects.                                                     *)

TextDeltaEvent(content) ==
    [kind |-> "text_delta", ok |-> TRUE, content |-> content]
ToolCallEvent(id, name, input) ==
    [kind |-> "tool_call", ok |-> TRUE, id |-> id, name |-> name, input |-> input]
ToolResultEvent(id, content, is_error) ==
    [kind |-> "tool_result", ok |-> TRUE, tool_use_id |-> id,
     content |-> content, is_error |-> is_error]
TextEvent(content) ==
    [kind |-> "text", ok |-> TRUE, content |-> content]
MalformedEvent(kind) ==
    [kind |-> kind, ok |-> FALSE]

---------------------------------------------------------------------------
(* The closure state of one onNew call and the listeners' effect on it *)

TextItem(text) == [type |-> "text", text |-> text]

ToolCallItem(data) ==
    LET input == IF data.input = None THEN EmptyObject ELSE data.input[1]
    IN  [type |-> "tool-call",
         toolCallId |-> data.id,
         toolName |-> data.name,
         args |-> input,
         argsText |-> Stringify(input),
         result |-> None,
         isError |-> None]

\* currentTextIndex is a 0-based index into contentItems, or null.
NullIndex == -1

\* buildContent(): the content array shown for the ordered items
buildContent(contentItems) ==
    IF Len(contentItems) = 0 THEN <<TextItem("")>> ELSE contentItems

\* text_delta listener: append to the current text block or open a new one
TextDelta(c, data) ==
    LET i == c.currentTextIndex
    IN  IF i # NullIndex /\ i + 1 \in DOMAIN c.contentItems
           /\ c.contentItems[i + 1].type = "text"
        THEN [c EXCEPT !.contentItems[i + 1].text = @ \o data.content]
        ELSE [c EXCEPT !.currentTextIndex = Len(c.contentItems),
                       !.contentItems = Append(@, TextItem(data.content))]

\* Variant of ToolCall that forgets to reset currentTextIndex.
ToolCallKeepIndex(c, data) ==
    [c EXCEPT !.contentItems = Append(@, ToolCallItem(data))]

\* tool_call listener: reset the text index and push the tool call
ToolCall(c, data) ==
    [c EXCEPT !.currentTextIndex = NullIndex,
              !.contentItems = Append(@, ToolCallItem(data))]

\* contentItems.find(...): index of the first tool call with the id, or 0
FindToolCall(contentItems, id) ==
    LET hits == {i \in DOMAIN contentItems :
                    /\ contentItems[i].type = "tool-call"
                    /\ contentItems[i].toolCallId = id}
    IN  IF hits = {} THEN 0 ELSE CHOOSE i \in hits : \A j \in hits : i <= j

\* Variant of ToolResult that re-inserts the resolved block at the end.
ToolResultReinsert(c, data) ==
    LET i == FindToolCall(c.contentItems, data.tool_use_id)
        items == c.contentItems
    IN  IF i = 0 THEN c
        ELSE [c EXCEPT !.contentItems =
                 Append(SubSeq(items, 1, i - 1) \o SubSeq(items, i + 1, Len(items)),
                        [items[i] EXCEPT !.result = Some(data.content),
                                         !.isError = Some(data.is_error)])]

\* Variant of ToolResult that correlates by arrival order: the result goes to
\* the most recently pushed tool call, whatever its id.
ToolResultLatest(c, data) ==
    LET hits == {i \in DOMAIN c.contentItems : c.contentItems[i].type = "tool-call"}
        i == IF hits = {} THEN 0 ELSE CHOOSE k \in hits : \A j \in hits : j <= k
    IN  IF i = 0 THEN c
        ELSE [c EXCEPT !.contentItems[i].result = Some(data.content),
                       !.contentItems[i].isError = Some(data.is_error)]

\* Variant of ToolResult that registers a block for a result whose id is unknown.
ToolResultUpsert(c, data) ==
    LET i == FindToolCall(c.contentItems, data.tool_use_id)
    IN  IF i = 0
        THEN [c EXCEPT !.contentItems =
                 Append(@, [type |-> "tool-call",
                            toolCallId |-> data.tool_use_id,
                            toolName |-> "",
                            args |-> EmptyObject,
                            argsText |-> Stringify(EmptyObject),
                            result |-> Some(data.content),
                            isError |-> Some(data.is_error)])]
        ELSE [c EXCEPT !.contentItems[i].result = Some(data.content),
                       !.contentItems[i].isError = Some(data.is_error)]

\* tool_result listener: set result and isError of the tool call found
ToolResult(c, data) ==
    LET i == FindToolCall(c.contentItems, data.tool_use_id)
    IN  IF i = 0 THEN c
        ELSE [c EXCEPT !.contentItems[i].result = Some(data.content),
                       !.contentItems[i].isError = Some(data.is_error)]

\* contentItems.findLastIndex(item => item.type === "text"), 1-based, or 0
FindLastTextIndex(contentItems) ==
    LET hits == {i \in DOMAIN contentItems : contentItems[i].type = "text"}
    IN  IF hits = {} THEN 0 ELSE CHOOSE i \in hits : \A j \in hits : j <= i

\* Variant of FinalItems that always appends the final text as a new item.
FinalItemsAppend(contentItems, data) ==
    IF data.content = "" THEN contentItems
    ELSE Append(contentItems, TextItem(data.content))

\* Variant of FinalItems without the test of data.content.
FinalItemsUnguarded(contentItems, data) ==
    LET last == FindLastTextIndex(contentItems)
    IN  IF last > 0 THEN [contentItems EXCEPT ![last].text = data.content]
        ELSE Append(contentItems, TextItem(data.content))

\* text listener: a non-empty final text replaces the last text item
FinalItems(contentItems, data) ==
    LET last == FindLastTextIndex(contentItems)
    IN  IF data.content = "" THEN contentItems
        ELSE IF last > 0 THEN [contentItems EXCEPT ![last].text = data.content]
        ELSE Append(contentItems, TextItem(data.content))

\* sessions.find((s) => s.id === sessionId) is found and has no title, in
\* the sessions and sessionId of the render onNew was made in.
NeedsTitle(c) ==
    \E i \in DOMAIN c.sessions :
        /\ c.sessions[i].id = c.sessionId
        /\ c.sessions[i].title = None

\* Variant of Text that leaves the subscription open.
TextKeepOpen(c, data) ==
    [c EXCEPT !.contentItems = FinalItems(@, data),
              !.generateTitle = IF NeedsTitle(c) THEN "pending" ELSE @]

\* text listener: the closure after it (eventSource.close() and the call of
\* generateTitle included)
Text(c, data) ==
    [c EXCEPT !.contentItems = FinalItems(@, data),
              !.eventSource = "closed",
              !.generateTitle = IF NeedsTitle(c) THEN "pending" ELSE @]

\* Variant of ParseFailure in which the failing listener closes the stream.
ParseFailureCloses(c) ==
    [c EXCEPT !.eventSource = "closed"]

\* A listener whose JSON.parse(e.data) throws: the closure after it
ParseFailure(c) == c

\* setMessages(prev => prev.map(m => m.id === id ? {...m, content} : m))
UpdateContent(msgs, id, content) ==
    [i \in DOMAIN msgs |->
        IF msgs[i].id = id THEN [msgs[i] EXCEPT !.content = content] ELSE msgs[i]]

\* Variant of UpdateContentAndStatus that drops the status.
UpdateContentOnly(msgs, id, content, status) ==
    [i \in DOMAIN msgs |->
        IF msgs[i].id = id THEN [msgs[i] EXCEPT !.content = content] ELSE msgs[i]]

\* Variant of UpdateContentAndStatus that rewrites every assistant message.
UpdateEveryAssistant(msgs, id, content, status) ==
    [i \in DOMAIN msgs |->
        IF msgs[i].role = "assistant"
        THEN [msgs[i] EXCEPT !.content = content, !.status = status]
        ELSE msgs[i]]

\* setMessages(prev => prev.map(m => m.id === id ? {...m, content, status} : m))
UpdateContentAndStatus(msgs, id, content, status) ==
    [i \in DOMAIN msgs |->
        IF msgs[i].id = id
        THEN [msgs[i] EXCEPT !.content = content, !.status = status]
        ELSE msgs[i]]

---------------------------------------------------------------------------
(* The keyed-map variant of onNew (runtime-provider.tsx): accumulatedText   *)
(* and a Map of tool calls keyed by id.  The Map is the sequence of its    *)
(* values in insertion order.                                              *)

\* toolCalls.get(id): the position of the entry of the key, or 0
MapIndex(toolCalls, id) ==
    IF \E i \in DOMAIN toolCalls : toolCalls[i].toolCallId = id
    THEN CHOOSE i \in DOMAIN toolCalls : toolCalls[i].toolCallId = id
    ELSE 0

\* toolCalls.set(id, value): a key already in the Map keeps its position
MapSet(toolCalls, id, value) ==
    IF MapIndex(toolCalls, id) = 0 THEN Append(toolCalls, value)
    ELSE [toolCalls EXCEPT ![MapIndex(toolCalls, id)] = value]

\* buildContent() of the keyed-map variant: the text first, then the tool
\* calls
KeyedContent(accumulatedText, toolCalls) ==
    LET content == (IF accumulatedText # "" THEN <<TextItem(accumulatedText)>> ELSE <<>>)
                   \o toolCalls
    IN  IF Len(content) > 0 THEN content ELSE <<TextItem("")>>

\* Variant of KeyedTextDelta that keeps the last delta only.
KeyedTextDeltaReplace(k, data) ==
    [k EXCEPT !.accumulatedText = data.content]

\* text_delta listener: accumulatedText += data.content
KeyedTextDelta(k, data) ==
    [k EXCEPT !.accumulatedText = @ \o data.content]

\* tool_call listener: toolCalls.set(data.id, { ... }), a fresh entry
KeyedToolCall(k, data) ==
    [k EXCEPT !.toolCalls = MapSet(@, data.id, ToolCallItem(data))]

\* tool_result listener: the entry of the id, if any, gets the outcome
KeyedToolResult(k, data) ==
    LET i == MapIndex(k.toolCalls, data.tool_use_id)
    IN  IF i = 0 THEN k
        ELSE [k EXCEPT !.toolCalls[i].result = Some(data.content),
                       !.toolCalls[i].isError = Some(data.is_error)]

\* text listener: accumulatedText = data.content; eventSource.close()
KeyedText(k, data) ==
    [k EXCEPT !.accumulatedText = data.content,
              !.eventSource = "closed"]

\* The keyed-map turn as its onNew starts it
KeyedStart ==
    [accumulatedText |-> "",
     toolCalls |-> <<>>,
     eventSource |-> "open",
     content |-> <<TextItem("")>>,
     status |-> StatusRunning]

\* One well-formed stream event delivered to the keyed-map turn: its
\* closure, and the content and status of its assistant message
KeyedApply(k, e) ==
    IF k.eventSource # "open" THEN k
    ELSE LET k2 == CASE e.kind = "text_delta" -> KeyedTextDelta(k, e)
                     [] e.kind = "tool_call" -> KeyedToolCall(k, e)
                     [] e.kind = "tool_result" -> KeyedToolResult(k, e)
                     [] e.kind = "text" -> KeyedText(k, e)
         IN  [k2 EXCEPT !.content = KeyedContent(k2.accumulatedText, k2.toolCalls),
                        !.status = IF e.kind = "text" THEN StatusComplete ELSE @]

---------------------------------------------------------------------------
(* Stored turns and their replay (convertTurnToMessages).  A stored block  *)
(* is the JSON object the backend persisted: each member is present or     *)
(* absent.  assistant_blocks stands for the array its JSON text parses to. *)

\* What reading a member the object does not have yields.
Undefined == "undefined"

Field(member) == IF member = None THEN Undefined ELSE member[1]

\* JSON.stringify(block.input, null, 2); of undefined it is undefined
StringifyInput(input) ==
    IF input = None THEN Undefined ELSE Stringify(input[1])

NoMembers ==
    [type |-> None, text |-> None, id |-> None, name |-> None,
     input |-> None, result |-> None, is_error |-> None]

\* interface TextBlock { type: "text"; text }
TextBlock(text) ==
    [NoMembers EXCEPT !.type = Some("text"), !.text = Some(text)]

\* interface ToolUseBlock { type: "tool_use"; id; name; input; result?; is_error? }
ToolUseBlock(id, name, input, result, is_error) ==
    [NoMembers EXCEPT !.type = Some("tool_use"), !.id = Some(id),
                      !.name = Some(name), !.input = Some(input),
                      !.result = result, !.is_error = is_error]

\* Variant of ConvertBlock that shows a tool call without its outcome.
ConvertBlockNoOutcome(block) ==
    IF block.type = Some("text")
    THEN [type |-> "text", text |-> Field(block.text)]
    ELSE [type |-> "tool-call",
          toolCallId |-> Field(block.id),
          toolName |-> Field(block.name),
          args |-> Field(block.input),
          argsText |-> StringifyInput(block.input),
          result |-> None,
          isError |-> None]

\* blocks.map((block) => ...): a block whose type is not "text" is taken for
\* a tool_use block
ConvertBlock(block) ==
    IF block.type = Some("text")
    THEN [type |-> "text", text |-> Field(block.text)]
    ELSE [type |-> "tool-call",
          toolCallId |-> Field(block.id),
          toolName |-> Field(block.name),
          args |-> Field(block.input),
          argsText |-> StringifyInput(block.input),
          result |-> block.result,
          isError |-> block.is_error]

\* if (turn.user_content): neither null nor the empty string
Truthy(text) == text # None /\ text # Some("")

convertTurnToMessages(turn) ==
    (IF Truthy(turn.user_content)
     THEN << [role |-> "user",
              content |-> <<TextItem(turn.user_content[1])>>,
              id |-> turn.id \o "-user"] >>
     ELSE <<>>)
    \o
    (IF turn.assistant_blocks # None
     THEN << [role |-> "assistant",
              content |-> [i \in DOMAIN turn.assistant_blocks[1] |->
                              ConvertBlock(turn.assistant_blocks[1][i])],
              id |-> turn.id \o "-assistant",
              status |-> StatusComplete] >>
     ELSE <<>>)

\* convertTurnToMessages of the keyed-map variant (runtime-provider.tsx):
\* it reads assistant_content, a flat string
convertTurnToMessagesFlat(turn) ==
    (IF Truthy(turn.user_content)
     THEN << [role |-> "user",
              content |-> <<TextItem(turn.user_content[1])>>,
              id |-> turn.id \o "-user"] >>
     ELSE <<>>)
    \o
    (IF Truthy(turn.assistant_content)
     THEN << [role |-> "assistant",
              content |-> <<TextItem(turn.assistant_content[1])>>,
              id |-> turn.id \o "-assistant",
              status |-> StatusComplete] >>
     ELSE <<>>)

\* session.turns.flatMap(convertTurnToMessages)
RECURSIVE FlatMapTurns(_)
FlatMapTurns(storedTurns) ==
    IF storedTurns = <<>> THEN <<>>
    ELSE convertTurnToMessages(Head(storedTurns)) \o FlatMapTurns(Tail(storedTurns))

---------------------------------------------------------------------------
(* Initial state: provider mounted, init() found no session and created    *)
(* the first one                                                           *)

\* The id the backend gives the n-th session it creates, and the session
\* createSession() returns (body { title: null }).
SessionName(n) == "s" \o ToString(n)
NewSession(n) == [id |-> SessionName(n), title |-> None]

NoEvent == [turn |-> 0, kind |-> "none", ok |-> TRUE, handled |-> FALSE]

Init ==
    /\ messages = <<>>
    /\ isRunning = FALSE
    /\ turns = <<>>
    /\ lastEvent = NoEvent
    /\ nEvents = 0
    /\ log = <<>>
    /\ sessionId = SessionName(1)
    /\ sessions = <<NewSession(1)>>
    /\ origin = 0
    /\ keyed = KeyedStart

---------------------------------------------------------------------------
(* onNew up to its await: both messages, the flag, the subscription and    *)
(* the submission request.  The runtime offers onNew only while the        *)
(* running flag is off.  Date.now() is read once per call; calls are user  *)
(* submissions, so the readings are distinct: the call number stands for   *)
(* the reading.                                                            *)

\* Variant of NewTurn that appends the placeholder before the user message.
NewTurnPlaceholderFirst(input) ==
    LET timestamp == Len(turns) + 1
        userMessage == [role |-> "user",
                        content |-> <<TextItem(input)>>,
                        id |-> UserId(timestamp)]
        assistantMessage == [role |-> "assistant",
                             content |-> <<TextItem("")>>,
                             id |-> AssistantId(timestamp),
                             status |-> StatusRunning]
    IN  /\ ~isRunning
        /\ messages' = Append(Append(messages, assistantMessage), userMessage)
        /\ isRunning' = TRUE
        /\ turns' = Append(turns,
                           [assistantMessageId |-> AssistantId(timestamp),
                            sessionId |-> sessionId,
                            contentItems |-> <<>>,
                            currentTextIndex |-> NullIndex,
                            eventSource |-> "open",
                            sendMessage |-> "pending",
                            sessions |-> sessions,
                            generateTitle |-> "none"])
        /\ UNCHANGED <<lastEvent, nEvents, log, sessionId, sessions, origin, keyed>>

NewTurn(input) ==
    LET timestamp == Len(turns) + 1
        userMessage == [role |-> "user",
                        content |-> <<TextItem(input)>>,
                        id |-> UserId(timestamp)]
        assistantMessage == [role |-> "assistant",
                             content |-> <<TextItem("")>>,
                             id |-> AssistantId(timestamp),
                             status |-> StatusRunning]
    IN  /\ ~isRunning
        /\ messages' = Append(Append(messages, userMessage), assistantMessage)
        /\ isRunning' = TRUE
        /\ turns' = Append(turns,
                           [assistantMessageId |-> AssistantId(timestamp),
                            sessionId |-> sessionId,
                            contentItems |-> <<>>,
                            currentTextIndex |-> NullIndex,
                            eventSource |-> "open",
                            sendMessage |-> "pending",
                            sessions |-> sessions,
                            generateTitle |-> "none"])
        /\ UNCHANGED <<lastEvent, nEvents, log, sessionId, sessions, origin, keyed>>

(* One stream event arriving for the subscription of turn t.  A closed     *)
(* EventSource dispatches nothing; a payload JSON.parse rejects makes the  *)
(* listener throw on its first line, before it changes anything.           *)
Dispatch(t, e) ==
    LET c == turns[t]
        handled == c.eventSource = "open"
        id == c.assistantMessageId
    IN  /\ lastEvent' = [turn |-> t, kind |-> e.kind, ok |-> e.ok, handled |-> handled]
        /\ nEvents' = nEvents + 1
        /\ UNCHANGED <<sessionId, sessions>>
        /\ IF ~handled
           THEN UNCHANGED <<messages, isRunning, turns>>
           ELSE IF ~e.ok
           THEN /\ turns' = [turns EXCEPT ![t] = ParseFailure(c)]
                /\ UNCHANGED <<messages, isRunning>>
           ELSE CASE e.kind = "text_delta" ->
                       LET c2 == TextDelta(c, e)
                       IN  /\ turns' = [turns EXCEPT ![t] = c2]
                           /\ messages' = UpdateContent(messages, id,
                                              buildContent(c2.contentItems))
                           /\ UNCHANGED isRunning
                  [] e.kind = "tool_call" ->
                       LET c2 == ToolCall(c, e)
                       IN  /\ turns' = [turns EXCEPT ![t] = c2]
                           /\ messages' = UpdateContent(messages, id,
                                              buildContent(c2.contentItems))
                           /\ UNCHANGED isRunning
                  [] e.kind = "tool_result" ->
                       LET c2 == ToolResult(c, e)
                       IN  /\ turns' = [turns EXCEPT ![t] = c2]
                           /\ messages' = UpdateContent(messages, id,
                                              buildContent(c2.contentItems))
                           /\ UNCHANGED isRunning
                  [] e.kind = "text" ->
                       LET c2 == Text(c, e)
                       IN  /\ turns' = [turns EXCEPT ![t] = c2]
                           /\ messages' = UpdateContentAndStatus(messages, id,
                                              buildContent(c2.contentItems),
                                              StatusComplete)
                           /\ isRunning' = FALSE

\* The session stream carries the events of every turn of the session to
\* every subscription open on it.
Deliver(t, e, maxEvents) ==
    /\ nEvents < maxEvents
    /\ Dispatch(t, e)
    /\ \E o \in DOMAIN turns :
          /\ turns[o].sessionId = turns[t].sessionId
          /\ origin' = o
    /\ UNCHANGED <<log, keyed>>

Submit(maxTurns) == \E input \in UserInputs :
    /\ Len(turns) < maxTurns
    /\ NewTurn(input)

OnTextDelta(maxEvents) == \E t \in DOMAIN turns, content \in DeltaTexts :
    Deliver(t, TextDeltaEvent(content), maxEvents)

OnToolCall(maxEvents) == \E t \in DOMAIN turns, id \in ToolIds, req \in ToolRequests :
    Deliver(t, ToolCallEvent(id, req[1], req[2]), maxEvents)

OnToolResult(maxEvents) == \E t \in DOMAIN turns, id \in ToolIds, out \in ToolOutcomes :
    Deliver(t, ToolResultEvent(id, out[1], out[2]), maxEvents)

OnText(maxEvents) == \E t \in DOMAIN turns, content \in FinalTexts :
    Deliver(t, TextEvent(content), maxEvents)

OnMalformed(maxEvents) == \E t \in DOMAIN turns, kind \in EventKinds :
    Deliver(t, MalformedEvent(kind), maxEvents)

\* eventSource.onerror: the stream reports an error on an open subscription
OnError == \E t \in DOMAIN turns :
    /\ turns[t].eventSource = "open"
    /\ turns' = [turns EXCEPT ![t].eventSource = "closed"]
    /\ isRunning' = FALSE
    /\ UNCHANGED <<messages, lastEvent, nEvents, log, sessionId, sessions, origin, keyed>>

\* await sendMessage(...) resolves: onNew returns
SendResolved == \E t \in DOMAIN turns :
    /\ turns[t].sendMessage = "pending"
    /\ turns' = [turns EXCEPT ![t].sendMessage = "resolved"]
    /\ UNCHANGED <<messages, isRunning, lastEvent, nEvents, log, sessionId, sessions, origin, keyed>>

\* await sendMessage(...) rejects: the catch block
SendRejected == \E t \in DOMAIN turns :
    /\ turns[t].sendMessage = "pending"
    /\ turns' = [turns EXCEPT ![t].sendMessage = "rejected"]
    /\ messages' = UpdateContentAndStatus(messages, turns[t].assistantMessageId,
                                          <<TextItem(ErrorText)>>, StatusError)
    /\ isRunning' = FALSE
    /\ UNCHANGED <<lastEvent, nEvents, log, sessionId, sessions, origin, keyed>>

\* Titles the backend generates
Titles == {"T"}

\* generateTitle(sessionId) resolves: the .then callback
TitleResolved == \E t \in DOMAIN turns, title \in Titles :
    /\ turns[t].generateTitle = "pending"
    /\ turns' = [turns EXCEPT ![t].generateTitle = "resolved"]
    /\ sessions' = [i \in DOMAIN sessions |->
                       IF sessions[i].id = turns[t].sessionId
                       THEN [sessions[i] EXCEPT !.title = Some(title)]
                       ELSE sessions[i]]
    /\ UNCHANGED <<messages, isRunning, lastEvent, nEvents, log, sessionId, origin, keyed>>

\* generateTitle(sessionId) rejects: the .catch callback logs the error
TitleRejected == \E t \in DOMAIN turns :
    /\ turns[t].generateTitle = "pending"
    /\ turns' = [turns EXCEPT ![t].generateTitle = "rejected"]
    /\ UNCHANGED <<messages, isRunning, lastEvent, nEvents, log, sessionId, sessions, origin, keyed>>

---------------------------------------------------------------------------
(* Thread switching (threadListAdapter) and loadSession *)

\* What the backend returns as session.turns: the i-th turn carries id t<i>.
\* A turn of the block-array shape has no assistant_content member.
StoredTurn(i, user_content, assistant_blocks) ==
    [id |-> "t" \o ToString(i),
     user_content |-> user_content,
     assistant_blocks |-> assistant_blocks,
     assistant_content |-> None]

\* A turn of the flat-string shape: assistant_content, no assistant_blocks.
FlatTurn(i, user_content, assistant_content) ==
    [id |-> "t" \o ToString(i),
     user_content |-> user_content,
     assistant_blocks |-> None,
     assistant_content |-> assistant_content]

\* <<user_content, assistant_blocks, assistant_content>> of stored turns: a
\* complete turn, a turn without assistant side, an empty block array, a
\* block of unknown type, a text block without text, a tool_use block
\* without id, a turn of the flat-string shape.
StoredBodies ==
    { <<Some("hi"), Some(<<TextBlock("x"),
                           ToolUseBlock("A", "search", QueryObject,
                                        Some("rA"), Some(FALSE))>>), None>>,
      <<Some("hi"), None, None>>,
      <<None, Some(<<>>), None>>,
      <<Some("hi"), Some(<< [NoMembers EXCEPT !.type = Some("image")] >>), None>>,
      <<Some("hi"), Some(<<TextBlock("x"),
                           [NoMembers EXCEPT !.type = Some("text")]>>), None>>,
      <<None, Some(<< [ToolUseBlock("A", "read", EmptyObject, None, None)
                          EXCEPT !.id = None] >>), None>>,
      <<Some("hi"), None, Some("flat")>> }

\* The i-th turn of a session with the body
BodyTurn(i, body) ==
    IF body[3] = None THEN StoredTurn(i, body[1], body[2])
    ELSE FlatTurn(i, body[1], body[3])

\* Every session.turns of at most MaxStoredTurns turns over StoredBodies
StoredHistories ==
    UNION {{[i \in 1..n |-> BodyTurn(i, h[i])] : h \in [1..n -> StoredBodies]} :
              n \in 0..MaxStoredTurns}

\* session.turns of the sessions switched to in ThreadSpec
SessionHistories ==
    {<<>>, <<StoredTurn(1, Some("hi"), Some(<<TextBlock("x")>>))>>}

\* loadSession(id) once fetchSessionDetail(id) has returned storedTurns
LoadSession(id, storedTurns) ==
    /\ sessionId' = id
    /\ messages' = IF Len(storedTurns) > 0 THEN FlatMapTurns(storedTurns) ELSE <<>>
    /\ UNCHANGED <<isRunning, turns, lastEvent, nEvents, log, sessions, origin, keyed>>

\* onSwitchToThread(threadId), and the loadSession(newSession.id) that ends
\* onSwitchToNewThread
SwitchToThread(histories) == \E i \in DOMAIN sessions, storedTurns \in histories :
    LoadSession(sessions[i].id, storedTurns)

\* onSwitchToNewThread once createSession() has returned, up to its
\* await loadSession
SwitchToNewThread(maxSessions) ==
    /\ Len(sessions) < maxSessions
    /\ sessions' = <<NewSession(Len(sessions) + 1)>> \o sessions
    /\ messages' = <<>>
    /\ UNCHANGED <<isRunning, turns, lastEvent, nEvents, log, sessionId, origin, keyed>>

---------------------------------------------------------------------------
(* Spec: one submission and the life of its turn *)

Next ==
    \/ Submit(1)
    \/ OnTextDelta(MaxEvents)
    \/ OnToolCall(MaxEvents)
    \/ OnToolResult(MaxEvents)
    \/ OnText(MaxEvents)
    \/ OnMalformed(MaxEvents)
    \/ OnError
    \/ SendResolved
    \/ SendRejected

Spec == Init /\ [][Next]_vars

(* SessionSpec: several submissions in one session, each with its own      *)
(* subscription to the session's stream                                    *)

SessionNext ==
    \/ Submit(MaxTurns)
    \/ OnTextDelta(MaxSessionEvents)
    \/ OnToolCall(MaxSessionEvents)
    \/ OnToolResult(MaxSessionEvents)
    \/ OnText(MaxSessionEvents)
    \/ OnMalformed(MaxSessionEvents)
    \/ OnError
    \/ SendResolved
    \/ SendRejected

SessionSpec == Init /\ [][SessionNext]_vars

(* ThreadSpec: SessionSpec and the thread list; a submission subscribes to *)
(* the stream of the session shown when it is made                         *)

ThreadNext ==
    \/ Submit(MaxTurns)
    \/ OnTextDelta(MaxSessionEvents)
    \/ OnToolCall(MaxSessionEvents)
    \/ OnToolResult(MaxSessionEvents)
    \/ OnText(MaxSessionEvents)
    \/ OnMalformed(MaxSessionEvents)
    \/ OnError
    \/ SendResolved
    \/ SendRejected
    \/ SwitchToNewThread(MaxSessions)
    \/ SwitchToThread(SessionHistories)

ThreadSpec == Init /\ [][ThreadNext]_vars

(* OrderingSpec: one turn fed well-formed events of two tool calls A and B *)
(* and two text deltas, every delivery logged                              *)

OrderingEvents ==
    {ToolCallEvent("A", "search", Some(QueryObject)),
     ToolCallEvent("B", "read", None),
     TextDeltaEvent("x"),
     TextDeltaEvent("y"),
     ToolResultEvent("A", "rA", FALSE),
     ToolResultEvent("B", "rB", TRUE)}

Feed == \E e \in OrderingEvents :
    /\ turns # <<>>
    /\ Len(log) < MaxLog
    /\ Dispatch(1, e)
    /\ origin' = 1
    /\ log' = Append(log, e)
    /\ UNCHANGED keyed

OrderingNext ==
    \/ Submit(1)
    \/ Feed

OrderingSpec == Init /\ [][OrderingNext]_vars

(* TitleSpec: several submissions in one session, their stream events and  *)
(* the responses to generateTitle                                          *)

TitleNext ==
    \/ Submit(MaxTurns)
    \/ OnTextDelta(MaxTitleEvents)
    \/ OnToolCall(MaxTitleEvents)
    \/ OnToolResult(MaxTitleEvents)
    \/ OnText(MaxTitleEvents)
    \/ OnMalformed(MaxTitleEvents)
    \/ OnError
    \/ SendResolved
    \/ SendRejected
    \/ TitleResolved
    \/ TitleRejected

TitleSpec == Init /\ [][TitleNext]_vars

(* RecordSpec: one turn fed events of every kind, the terminal text        *)
(* included, every delivery logged; a turn of the keyed-map variant        *)
(* receives the same events side by side                                   *)

RecordedEvents ==
    {TextDeltaEvent("x"),
     ToolCallEvent("A", "search", Some(QueryObject)),
     ToolCallEvent("B", "read", None),
     ToolResultEvent("A", "rA", FALSE),
     TextEvent("final"),
     TextEvent("")}

FeedRecorded == \E e \in RecordedEvents :
    /\ turns # <<>>
    /\ Len(log) < MaxRecord
    /\ Dispatch(1, e)
    /\ origin' = 1
    /\ log' = Append(log, e)
    /\ keyed' = KeyedApply(keyed, e)

RecordNext ==
    \/ Submit(1)
    \/ FeedRecorded

RecordSpec == Init /\ [][RecordNext]_vars

(* ReplaySpec: the thread list only; every stored history is loaded        *)

ReplayNext ==
    \/ SwitchToNewThread(MaxSessions)
    \/ SwitchToThread(StoredHistories)

ReplaySpec == Init /\ [][ReplayNext]_vars

---------------------------------------------------------------------------
(* Non-streaming variant (runtime-provider.tsx, second provider): onNew    *)
(* awaits sendMessage and converts the turn it returns                     *)

\* useState<string | null>(null): no session yet
NullSession == "null"

\* status: { type: "complete" } of the non-streaming convertTurnToMessages
StatusCompletePlain == [type |-> "complete"]

\* convertTurnToMessages of the non-streaming variant
convertTurnToMessagesPlain(turn) ==
    (IF Truthy(turn.user_content)
     THEN << [role |-> "user",
              content |-> <<TextItem(turn.user_content[1])>>,
              id |-> turn.id \o "-user"] >>
     ELSE <<>>)
    \o
    (IF Truthy(turn.assistant_content)
     THEN << [role |-> "assistant",
              content |-> <<TextItem(turn.assistant_content[1])>>,
              id |-> turn.id \o "-assistant",
              status |-> StatusCompletePlain] >>
     ELSE <<>>)

\* session.turns.flatMap(convertTurnToMessages)
RECURSIVE FlatMapTurnsPlain(_)
FlatMapTurnsPlain(storedTurns) ==
    IF storedTurns = <<>> THEN <<>>
    ELSE convertTurnToMessagesPlain(Head(storedTurns))
         \o FlatMapTurnsPlain(Tail(storedTurns))

\* Variant of WithoutTemp that removes nothing.
WithoutTempKeepsAll(prev, tempId) == prev

\* prev.filter((m) => m.id !== tempUserMessage.id)
WithoutTemp(prev, tempId) == SelectSeq(prev, LAMBDA m : m.id # tempId)

\* `temp-user-${Date.now()}`
TempUserId(timestamp) == "temp-user-" \o ToString(timestamp)

\* <<user_content, assistant_content>> of the turns createSession() may
\* return in session.turns
PlainBodies ==
    { <<Some("hi"), Some("flat")>>, <<Some("hi"), None>>, <<None, Some("flat")>> }

PlainHistories ==
    UNION {{[i \in 1..n |-> FlatTurn(i, h[i][1], h[i][2])] : h \in [1..n -> PlainBodies]} :
              n \in 0..MaxStoredTurns}

\* The turns sendMessage(sessionId, input) may resolve to for the n-th
\* submission: the backend stores the input and the reply, either of which
\* may be null or empty.
ReturnedTurns(n, input) ==
    { [id |-> "r" \o ToString(n),
       user_content |-> u,
       assistant_blocks |-> None,
       assistant_content |-> a] :
          u \in {Some(input), None}, a \in {Some("flat"), Some(""), None} }

\* Provider mounted, initSession() still awaiting createSession()
PlainInit ==
    /\ messages = <<>>
    /\ isRunning = FALSE
    /\ turns = <<>>
    /\ lastEvent = NoEvent
    /\ nEvents = 0
    /\ log = <<>>
    /\ sessionId = NullSession
    /\ sessions = <<>>
    /\ origin = 0
    /\ keyed = KeyedStart

\* initSession once createSession() has returned
InitSession == \E storedTurns \in PlainHistories :
    /\ sessionId = NullSession
    /\ sessionId' = SessionName(1)
    /\ messages' = IF Len(storedTurns) > 0 THEN FlatMapTurnsPlain(storedTurns)
                   ELSE messages
    /\ UNCHANGED <<isRunning, turns, lastEvent, nEvents, log, sessions, origin, keyed>>

\* onNew up to its await sendMessage.  prev is the list the first
\* setMessages updater receives.
PlainOnNew(maxTurns) == \E input \in UserInputs :
    LET timestamp == Len(turns) + 1
        tempUserMessage == [role |-> "user",
                            content |-> <<TextItem(input)>>,
                            id |-> TempUserId(timestamp)]
    IN  /\ Len(turns) < maxTurns
        /\ ~isRunning
        /\ IF sessionId = NullSession
           THEN UNCHANGED vars
           ELSE /\ messages' = Append(messages, tempUserMessage)
                /\ isRunning' = TRUE
                /\ turns' = Append(turns,
                                   [tempUserMessageId |-> tempUserMessage.id,
                                    sessionId |-> sessionId,
                                    input |-> input,
                                    prev |-> messages,
                                    sendMessage |-> "pending",
                                    turn |-> None])
                /\ UNCHANGED <<lastEvent, nEvents, log, sessionId, sessions, origin, keyed>>

\* await sendMessage(...) resolves: the rest of the try block, then finally
PlainResolved == \E t \in DOMAIN turns :
    \E turn \in ReturnedTurns(t, turns[t].input) :
        /\ turns[t].sendMessage = "pending"
        /\ turns' = [turns EXCEPT ![t].sendMessage = "resolved", ![t].turn = Some(turn)]
        /\ messages' = WithoutTemp(messages, turns[t].tempUserMessageId)
                       \o convertTurnToMessagesPlain(turn)
        /\ isRunning' = FALSE
        /\ UNCHANGED <<lastEvent, nEvents, log, sessionId, sessions, origin, keyed>>

\* await sendMessage(...) rejects: the catch block, then finally
PlainRejected == \E t \in DOMAIN turns :
    /\ turns[t].sendMessage = "pending"
    /\ turns' = [turns EXCEPT ![t].sendMessage = "rejected"]
    /\ messages' = WithoutTemp(messages, turns[t].tempUserMessageId)
    /\ isRunning' = FALSE
    /\ UNCHANGED <<lastEvent, nEvents, log, sessionId, sessions, origin, keyed>>

PlainNext ==
    \/ InitSession
    \/ PlainOnNew(MaxPlainTurns)
    \/ PlainResolved
    \/ PlainRejected

PlainSpec == PlainInit /\ [][PlainNext]_vars

---------------------------------------------------------------------------
(* Reading the assistant message of a turn *)

Msg(t) ==
    messages[CHOOSE i \in DOMAIN messages : messages[i].id = turns[t].assistantMessageId]
Blocks(t) == Msg(t).content
Status(t) == Msg(t).status

IsToolCall(b) == b.type = "tool-call"
IsText(b) == b.type = "text"

\* The step delivers an event of the kind to the open subscription of turn t
\* and its payload decodes: the listener of that kind runs.
Handles(t, kind) ==
    /\ turns[t].eventSource = "open"
    /\ nEvents' = nEvents + 1
    /\ lastEvent' = [turn |-> t, kind |-> kind, ok |-> TRUE, handled |-> TRUE]

---------------------------------------------------------------------------
(* C1 *)

ScriptResultBFirst ==
    <<ToolCallEvent("A", "search", Some(QueryObject)), TextDeltaEvent("x"),
      ToolCallEvent("B", "read", None), TextDeltaEvent("y"),
      ToolResultEvent("B", "rB", TRUE), ToolResultEvent("A", "rA", FALSE)>>

ScriptResultAFirst ==
    <<ToolCallEvent("A", "search", Some(QueryObject)), TextDeltaEvent("x"),
      ToolCallEvent("B", "read", None), TextDeltaEvent("y"),
      ToolResultEvent("A", "rA", FALSE), ToolResultEvent("B", "rB", TRUE)>>

OrderingExpected ==
    <<[type |-> "tool-call", toolCallId |-> "A", toolName |-> "search",
       args |-> QueryObject, argsText |-> "{\n  \"q\": \"a\"\n}",
       result |-> <<"rA">>, isError |-> <<FALSE>>],
      [type |-> "text", text |-> "x"],
      [type |-> "tool-call", toolCallId |-> "B", toolName |-> "read",
       args |-> EmptyObject, argsText |-> "{}",
       result |-> <<"rB">>, isError |-> <<TRUE>>],
      [type |-> "text", text |-> "y"]>>

\* C1: from a freshly started turn, after tool_call(A), text_delta("x"),
\* tool_call(B), text_delta("y") and the two tool_result events in either
\* order, the assistant block list is exactly [ToolCall A, Text "x",
\* ToolCall B, Text "y"], A carrying rA and B carrying rB.
C1_Ordering ==
    log \in {ScriptResultBFirst, ScriptResultAFirst} => Blocks(1) = OrderingExpected

C1_Witness == log = ScriptResultBFirst /\ Blocks(1) = OrderingExpected

C1_WitnessOtherOrder == log = ScriptResultAFirst /\ Blocks(1) = OrderingExpected

---------------------------------------------------------------------------
(* C2 *)

HasText(blocks) == \E i \in DOMAIN blocks : IsText(blocks[i])

LastTextIndex(blocks) ==
    CHOOSE i \in DOMAIN blocks :
        IsText(blocks[i]) /\ \A j \in DOMAIN blocks : IsText(blocks[j]) => j <= i

\* The block list the terminal text event is said to produce.
TerminalBlocks(blocks, finalContent) ==
    IF HasText(blocks)
    THEN [blocks EXCEPT ![LastTextIndex(blocks)].text = finalContent]
    ELSE Append(blocks, [type |-> "text", text |-> finalContent])

TextStepYields(t, finalContent) ==
    (/\ Status(t) = StatusRunning
     /\ turns[t].eventSource = "open"
     /\ Dispatch(t, TextEvent(finalContent)))
    => Blocks(t)' = TerminalBlocks(Blocks(t), finalContent)

\* C2 as stated: in every running state, handling text(finalContent) sets the
\* text of the last text block to finalContent and changes nothing else, or
\* appends a text block with finalContent when there is no text block.
C2_Original ==
    [][\A t \in DOMAIN turns, f \in FinalTexts : TextStepYields(t, f)]_vars

\* C2 as amended: the same, for every non-empty finalContent.
C2_TerminalText ==
    [][\A t \in DOMAIN turns, f \in FinalTexts \ {""} : TextStepYields(t, f)]_vars

\* text("final") handled: it replaced the text of the one text block, which
\* two tool calls follow.
C2_Witness ==
    /\ turns # <<>>
    /\ lastEvent = [turn |-> 1, kind |-> "text", ok |-> TRUE, handled |-> TRUE]
    /\ Len(Blocks(1)) = 3
    /\ Blocks(1)[1] = [type |-> "text", text |-> "final"]
    /\ IsToolCall(Blocks(1)[2])
    /\ IsToolCall(Blocks(1)[3])

---------------------------------------------------------------------------
(* C3 *)

\* C3: whenever the text listener handles a terminal text event of a turn,
\* the status of the turn's assistant message is complete after it.
C3_TextCompletes ==
    [][\A t \in DOMAIN turns : Handles(t, "text") => Status(t)' = StatusComplete]_vars

C3_Witness ==
    /\ turns # <<>>
    /\ lastEvent = [turn |-> 1, kind |-> "text", ok |-> TRUE, handled |-> TRUE]
    /\ nEvents > 1
    /\ Status(1) = StatusComplete

---------------------------------------------------------------------------
(* C4 *)

\* C4: once the assistant message of a turn has status complete or error, no
\* step changes its blocks or its status.
C4_TerminalImmutable ==
    [][\A t \in DOMAIN turns :
          Status(t) \in {StatusComplete, StatusError}
          => /\ Blocks(t)' = Blocks(t)
             /\ Status(t)' = Status(t)]_vars

---------------------------------------------------------------------------
(* C5 *)

\* C5: once the terminal text event has been handled (status complete), a
\* stream event of any kind delivered for the turn changes neither the
\* blocks nor the status.
C5_IgnoredAfterTerminal ==
    [][\A t \in DOMAIN turns :
          (/\ Status(t) = StatusComplete
           /\ nEvents' = nEvents + 1
           /\ lastEvent'.turn = t)
          => /\ Blocks(t)' = Blocks(t)
             /\ Status(t)' = Status(t)]_vars

\* A well-formed event was delivered after the terminal text event and dropped.
C5_Witness ==
    /\ turns # <<>>
    /\ Status(1) = StatusComplete
    /\ lastEvent.turn = 1
    /\ lastEvent.ok
    /\ ~lastEvent.handled

---------------------------------------------------------------------------
(* C6 *)

\* The block list a text_delta is said to produce.
DeltaBlocks(blocks, content) ==
    IF blocks # <<>> /\ IsText(blocks[Len(blocks)])
    THEN [blocks EXCEPT ![Len(blocks)].text = @ \o content]
    ELSE Append(blocks, [type |-> "text", text |-> content])

\* C6: in every running state, handling text_delta(content) appends content
\* to the last block if that block is a text block, and otherwise (last block
\* a tool call, or no item yet) appends a new text block holding content at
\* the end; this holds of the displayed blocks and of contentItems.
C6_TextDelta ==
    [][\A t \in DOMAIN turns, content \in DeltaTexts :
          (/\ Status(t) = StatusRunning
           /\ turns[t].eventSource = "open"
           /\ Dispatch(t, TextDeltaEvent(content)))
          => /\ Blocks(t)' = DeltaBlocks(Blocks(t), content)
             /\ turns'[t].contentItems = DeltaBlocks(turns[t].contentItems, content)]_vars

\* A text_delta handled after a tool call that itself followed text.
C6_Witness ==
    /\ turns # <<>>
    /\ lastEvent = [turn |-> 1, kind |-> "text_delta", ok |-> TRUE, handled |-> TRUE]
    /\ Len(Blocks(1)) = 3
    /\ Blocks(1)[1] = [type |-> "text", text |-> "x"]
    /\ IsToolCall(Blocks(1)[2])
    /\ Blocks(1)[3] = [type |-> "text", text |-> "y"]

---------------------------------------------------------------------------
(* C7 *)

\* C7: no two tool-call blocks of a turn's block list have the same toolCallId.
C7_UniqueCallIds ==
    \A t \in DOMAIN turns :
        \A i, j \in DOMAIN Blocks(t) :
            (/\ IsToolCall(Blocks(t)[i])
             /\ IsToolCall(Blocks(t)[j])
             /\ Blocks(t)[i].toolCallId = Blocks(t)[j].toolCallId)
            => i = j

---------------------------------------------------------------------------
(* C8 *)

Registered(t, id) ==
    \E i \in DOMAIN turns[t].contentItems :
        /\ IsToolCall(turns[t].contentItems[i])
        /\ turns[t].contentItems[i].toolCallId = id

\* C8: handling a tool_call whose id is already registered in the turn leaves
\* the block list as it was.
C8_DuplicateIgnored ==
    [][\A t \in DOMAIN turns, id \in ToolIds, req \in ToolRequests :
          (/\ Status(t) = StatusRunning
           /\ turns[t].eventSource = "open"
           /\ Registered(t, id)
           /\ Dispatch(t, ToolCallEvent(id, req[1], req[2])))
          => Blocks(t)' = Blocks(t)]_vars

---------------------------------------------------------------------------
(* C9 *)

\* C9: in a running turn, handling a tool_result whose tool_use_id matches no
\* registered tool call leaves the block list unchanged, the status running
\* and the subscription open.
C9_UnknownResultDropped ==
    [][\A t \in DOMAIN turns, id \in ToolIds, out \in ToolOutcomes :
          (/\ Status(t) = StatusRunning
           /\ turns[t].eventSource = "open"
           /\ ~Registered(t, id)
           /\ Dispatch(t, ToolResultEvent(id, out[1], out[2])))
          => /\ Blocks(t)' = Blocks(t)
             /\ Status(t)' = StatusRunning
             /\ turns'[t].eventSource = "open"]_vars

\* A tool_result was handled in a turn in which only tool call B is
\* registered, and B is still without result: the result was for another id.
C9_Witness ==
    /\ turns # <<>>
    /\ lastEvent = [turn |-> 1, kind |-> "tool_result", ok |-> TRUE, handled |-> TRUE]
    /\ Status(1) = StatusRunning
    /\ Len(Blocks(1)) = 2
    /\ IsText(Blocks(1)[1])
    /\ IsToolCall(Blocks(1)[2])
    /\ Blocks(1)[2].toolCallId = "B"
    /\ Blocks(1)[2].result = None

---------------------------------------------------------------------------
(* C10 *)

\* C10: a tool-call block has a result or an isError only if a tool_result
\* with its id was handled after a tool_call with its id; so when
\* tool_result(B) is delivered before tool_call(B), block B is registered
\* with both absent, and they stay absent until a further tool_result(B).
C10_ResultOnlyAfterCall ==
    /\ turns # <<>> =>
         \A k \in DOMAIN Blocks(1) :
            (IsToolCall(Blocks(1)[k])
             /\ (Blocks(1)[k].result # None \/ Blocks(1)[k].isError # None))
            => \E p, q \in DOMAIN log :
                  /\ p < q
                  /\ log[p].kind = "tool_call"
                  /\ log[p].id = Blocks(1)[k].toolCallId
                  /\ log[q].kind = "tool_result"
                  /\ log[q].tool_use_id = Blocks(1)[k].toolCallId
                  /\ Blocks(1)[k].result = <<log[q].content>>
                  /\ Blocks(1)[k].isError = <<log[q].is_error>>
    /\ (/\ Len(log) >= 2
        /\ log[1] = ToolResultEvent("B", "rB", TRUE)
        /\ log[2] = ToolCallEvent("B", "read", None)
        /\ \A q \in 3..Len(log) : log[q].kind # "tool_result")
       => /\ IsToolCall(Blocks(1)[1])
          /\ Blocks(1)[1].toolCallId = "B"
          /\ Blocks(1)[1].result = None
          /\ Blocks(1)[1].isError = None

\* tool_result(B) then tool_call(B) then a text delta: B has no result.
C10_Witness ==
    /\ log = <<ToolResultEvent("B", "rB", TRUE), ToolCallEvent("B", "read", None),
               TextDeltaEvent("x")>>
    /\ Len(Blocks(1)) = 2
    /\ Blocks(1)[1].toolCallId = "B"
    /\ Blocks(1)[1].result = None
    /\ Blocks(1)[1].isError = None

---------------------------------------------------------------------------
(* C11 *)

\* The identity of a block: its toolCallId, or, for a text block, that it is
\* a text block (its position is its index in the sequence).
Identity(b) == IF IsToolCall(b) THEN b.toolCallId ELSE "text"
Identities(blocks) == [i \in DOMAIN blocks |-> Identity(blocks[i])]

IsPrefix(s, r) == Len(s) <= Len(r) /\ SubSeq(r, 1, Len(s)) = s

\* Block b2 is block b1 with at most its result and isError changed.
SameButResult(b1, b2) ==
    /\ IsToolCall(b1)
    /\ b2 = [b1 EXCEPT !.result = b2.result, !.isError = b2.isError]

\* C11: for every event a listener of a running turn handles, the identities
\* of the blocks before it are a prefix of those after it, in the ordered
\* items of the turn and, once an item exists, in the displayed content; a
\* tool_result changes neither the number nor the order of blocks, and no
\* block other than in result and isError of a block with the result's id.
C11_PositionsStable ==
    [][\A t \in DOMAIN turns :
          (Status(t) = StatusRunning /\ \E kind \in EventKinds : Handles(t, kind))
          => /\ IsPrefix(Identities(turns[t].contentItems),
                         Identities(turns'[t].contentItems))
             /\ turns[t].contentItems # <<>>
                => IsPrefix(Identities(Blocks(t)), Identities(Blocks(t)'))
             /\ \A id \in ToolIds, out \in ToolOutcomes :
                   Dispatch(t, ToolResultEvent(id, out[1], out[2]))
                   => /\ Identities(turns'[t].contentItems)
                           = Identities(turns[t].contentItems)
                      /\ Identities(Blocks(t)') = Identities(Blocks(t))
                      /\ \A i \in DOMAIN Blocks(t) :
                            \/ Blocks(t)'[i] = Blocks(t)[i]
                            \/ /\ SameButResult(Blocks(t)[i], Blocks(t)'[i])
                               /\ Blocks(t)[i].toolCallId = id]_vars

\* A tool_result was handled for the first of three blocks, [ToolCall A,
\* Text, ToolCall B]: A carries the result and the order is as it was.
C11_Witness ==
    /\ turns # <<>>
    /\ lastEvent = [turn |-> 1, kind |-> "tool_result", ok |-> TRUE, handled |-> TRUE]
    /\ Status(1) = StatusRunning
    /\ Identities(Blocks(1)) = <<"A", "text", "B">>
    /\ Blocks(1)[1].result # None
    /\ Blocks(1)[3].result = None

---------------------------------------------------------------------------
(* C12 *)

\* The step is the onerror handler of the subscription of turn t: the
\* subscription goes from open to closed and no stream event is delivered.
StreamErrors(t) ==
    /\ turns[t].eventSource = "open"
    /\ turns'[t].eventSource = "closed"
    /\ nEvents' = nEvents

\* C12: when the stream of a running turn reports an error before the
\* terminal text, the status of the turn becomes error, the blocks shown are
\* the blocks accumulated so far with no text added, and the subscription is
\* closed.
C12_StreamErrorFails ==
    [][\A t \in DOMAIN turns :
          (Status(t) = StatusRunning /\ StreamErrors(t))
          => /\ Status(t)' = StatusError
             /\ Blocks(t)' = Blocks(t)
             /\ turns'[t].eventSource = "closed"]_vars

---------------------------------------------------------------------------
(* C13 *)

\* The assistant message of turn t is in the message list.
HasMsg(t) == \E i \in DOMAIN messages : messages[i].id = turns[t].assistantMessageId

\* The turn was cancelled: a later turn was started, or the thread list
\* replaced the session or the messages the turn was submitted in.
Cancelled(t) ==
    \/ t < Len(turns)
    \/ turns[t].sessionId # sessionId
    \/ ~HasMsg(t)

\* C13: no state is reachable in which the terminal text of a turn was
\* processed (its message is complete), the turn was cancelled by a thread
\* switch or a new turn, or its sendMessage failed, and the subscription of
\* the turn is still open.  (A stream error is only ever seen as the closed
\* subscription onerror leaves.)
C13_SubscriptionReleased ==
    \A t \in DOMAIN turns :
        (\/ (HasMsg(t) /\ Status(t) = StatusComplete)
         \/ Cancelled(t)
         \/ turns[t].sendMessage = "rejected")
        => turns[t].eventSource = "closed"

---------------------------------------------------------------------------
(* C14 *)

\* The step is the catch block of turn t: its sendMessage rejects.
SendFails(t) ==
    /\ turns[t].sendMessage = "pending"
    /\ turns'[t].sendMessage = "rejected"

\* C14: when sendMessage of a turn fails, the assistant message of the turn
\* gets exactly one text block reading "Error: Failed to get response" and
\* status error, the running flag is cleared, and every other message, and
\* the number and order of messages, is unchanged.
C14_SendFailure ==
    [][\A t \in DOMAIN turns :
          SendFails(t)
          => /\ Blocks(t)' = <<TextItem(ErrorText)>>
             /\ Status(t)' = StatusError
             /\ isRunning' = FALSE
             /\ Len(messages') = Len(messages)
             /\ \A i \in DOMAIN messages :
                   /\ messages'[i].id = messages[i].id
                   /\ messages'[i].role = messages[i].role
                   /\ messages[i].id # turns[t].assistantMessageId
                      => messages'[i] = messages[i]]_vars

\* The second turn's sendMessage failed after the first turn completed with
\* its final text: the first turn's message is as it was.
C14_Witness ==
    /\ Len(turns) = 2
    /\ turns[2].sendMessage = "rejected"
    /\ Blocks(2) = <<TextItem(ErrorText)>>
    /\ Status(2) = StatusError
    /\ Status(1) = StatusComplete
    /\ Blocks(1) = <<TextItem("final")>>
    /\ isRunning = FALSE

---------------------------------------------------------------------------
(* C15 *)

\* The step delivers a stream event produced for turn o.
EventOf(o) == nEvents' = nEvents + 1 /\ origin' = o

\* C15: a stream event produced for a turn changes the assistant message of
\* no earlier turn of the session: its blocks and status are as before.
C15_TurnsIsolated ==
    [][\A t, o \in DOMAIN turns :
          (t < o /\ turns[t].sessionId = turns[o].sessionId /\ EventOf(o))
          => Msg(t)' = Msg(t)]_vars

---------------------------------------------------------------------------
(* C16 *)

\* C16: an event whose payload JSON.parse rejects, delivered to the open
\* subscription of a running turn, changes nothing: the blocks and the
\* status (running) of the turn, every message, the running flag and the
\* closure of the turn are as before, so the subscription stays open and
\* later events meet the state they would have met without it.
C16_MalformedIgnored ==
    [][\A t \in DOMAIN turns, kind \in EventKinds :
          (/\ Status(t) = StatusRunning
           /\ turns[t].eventSource = "open"
           /\ Dispatch(t, MalformedEvent(kind)))
          => /\ Blocks(t)' = Blocks(t)
             /\ Status(t)' = StatusRunning
             /\ messages' = messages
             /\ isRunning' = isRunning
             /\ turns'[t] = turns[t]
             /\ turns'[t].eventSource = "open"]_vars

\* A malformed tool_call payload was delivered after a text delta and a tool
\* call: both blocks are shown, the turn is running and subscribed.
C16_Witness ==
    /\ turns # <<>>
    /\ lastEvent = [turn |-> 1, kind |-> "tool_call", ok |-> FALSE, handled |-> TRUE]
    /\ Status(1) = StatusRunning
    /\ turns[1].eventSource = "open"
    /\ Len(Blocks(1)) = 2
    /\ IsText(Blocks(1)[1])
    /\ IsToolCall(Blocks(1)[2])

---------------------------------------------------------------------------
(* C17 *)

\* The well-formed stream events of the model
StreamEvents ==
    {TextDeltaEvent(content) : content \in DeltaTexts}
    \cup {ToolCallEvent(id, req[1], req[2]) : id \in ToolIds, req \in ToolRequests}
    \cup {ToolResultEvent(id, out[1], out[2]) : id \in ToolIds, out \in ToolOutcomes}
    \cup {TextEvent(content) : content \in FinalTexts}

\* The state of turn t an event acts on: its closure and its message.
TurnState(t) == [closure |-> turns[t], content |-> Blocks(t), status |-> Status(t)]

\* The listener of the event's kind applied to the closure
Listener(c, e) ==
    CASE e.kind = "text_delta" -> TextDelta(c, e)
      [] e.kind = "tool_call" -> ToolCall(c, e)
      [] e.kind = "tool_result" -> ToolResult(c, e)
      [] e.kind = "text" -> Text(c, e)

\* Variant of Apply whose tool-call blocks carry the message id of the turn.
ApplyScopedIds(s, e) ==
    IF s.closure.eventSource # "open" THEN s
    ELSE LET c == s.closure
             scoped == IF e.kind = "tool_call"
                       THEN [e EXCEPT !.id = c.assistantMessageId \o ":" \o @]
                       ELSE e
             c2 == Listener(c, scoped)
         IN  [closure |-> c2,
              content |-> buildContent(c2.contentItems),
              status |-> IF e.kind = "text" THEN StatusComplete ELSE s.status]

\* apply(s, e): the state of a turn after the event is delivered to it
Apply(s, e) ==
    IF s.closure.eventSource # "open" THEN s
    ELSE LET c2 == Listener(s.closure, e)
         IN  [closure |-> c2,
              content |-> buildContent(c2.contentItems),
              status |-> IF e.kind = "text" THEN StatusComplete ELSE s.status]

\* Apply is what a delivery does to the turn.
ApplyIsDispatch ==
    [][\A t \in DOMAIN turns, e \in StreamEvents :
          Dispatch(t, e) => TurnState(t)' = Apply(TurnState(t), e)]_vars

\* C17: for every running state s of a turn and every event e, delivering e
\* twice leaves the turn as delivering it once:
\* apply(apply(s, e), e) = apply(s, e).
C17_Idempotent ==
    \A t \in DOMAIN turns :
        (Status(t) = StatusRunning /\ turns[t].eventSource = "open")
        => \A e \in StreamEvents :
              Apply(Apply(TurnState(t), e), e) = Apply(TurnState(t), e)

\* The same, for the events of kind tool_result and text only.
C17_IdempotentResultAndText ==
    \A t \in DOMAIN turns :
        (Status(t) = StatusRunning /\ turns[t].eventSource = "open")
        => \A e \in StreamEvents :
              e.kind \in {"tool_result", "text"}
              => Apply(Apply(TurnState(t), e), e) = Apply(TurnState(t), e)

---------------------------------------------------------------------------
(* C18 *)

\* C18: a submission appends, after the messages already in the list and
\* leaving them as they were, the user message holding the input as one
\* text block and then the assistant message of the new turn, whose content
\* is a single empty text block and whose status is running, and sets the
\* running flag; no stream event is involved and the turn has no item yet.
C18_Submission ==
    [][Len(turns') = Len(turns) + 1
       => LET n == Len(messages)
              t == Len(turns')
          IN  /\ Len(messages') = n + 2
              /\ SubSeq(messages', 1, n) = messages
              /\ messages'[n + 1].role = "user"
              /\ \E input \in UserInputs :
                    messages'[n + 1].content = <<TextItem(input)>>
              /\ messages'[n + 2].role = "assistant"
              /\ messages'[n + 2].id = turns'[t].assistantMessageId
              /\ messages'[n + 2].content = <<TextItem("")>>
              /\ messages'[n + 2].status = StatusRunning
              /\ isRunning' = TRUE
              /\ nEvents' = nEvents
              /\ turns'[t].contentItems = <<>>
              /\ SubSeq(turns', 1, Len(turns)) = turns]_vars

\* The second submission has just been made, after the first turn completed:
\* four messages, the last one the running placeholder.
C18_Witness ==
    /\ Len(turns) = 2
    /\ Len(messages) = 4
    /\ Status(1) = StatusComplete
    /\ Blocks(1) = <<TextItem("final")>>
    /\ messages[3].role = "user"
    /\ messages[4].id = turns[2].assistantMessageId
    /\ messages[4].content = <<TextItem("")>>
    /\ messages[4].status = StatusRunning
    /\ turns[2].contentItems = <<>>
    /\ turns[2].sendMessage = "pending"
    /\ isRunning = TRUE

---------------------------------------------------------------------------
(* C19 *)

\* A block of a live turn as the stored block of the claim: a text block as
\* type text, a tool call as type tool_use with id, name, input and, when
\* it has them, result and is_error.
StoredBlock(b) ==
    IF IsText(b) THEN TextBlock(b.text)
    ELSE ToolUseBlock(b.toolCallId, b.toolName, b.args, b.result, b.isError)

\* The stored turn whose assistant_blocks is the block list shown for turn t.
StoredLiveTurn(t) ==
    StoredTurn(t, Some("hi"), Some([i \in DOMAIN Blocks(t) |-> StoredBlock(Blocks(t)[i])]))

\* The assistant message convertTurnToMessages makes of it.
Replayed(t) ==
    LET converted == convertTurnToMessages(StoredLiveTurn(t))
    IN  converted[Len(converted)]

\* C19: for every completed live turn, replaying the stored turn whose
\* assistant_blocks is the turn's final block list yields one assistant
\* message with the same blocks in the same order (text, toolCallId,
\* toolName, args, argsText, result, isError) and status complete.
C19_ReplayParity ==
    \A t \in DOMAIN turns :
        Status(t) = StatusComplete
        => /\ Len(convertTurnToMessages(StoredLiveTurn(t))) = 2
           /\ Replayed(t).role = "assistant"
           /\ Replayed(t).content = Blocks(t)
           /\ Replayed(t).status = StatusComplete

\* A completed turn of three blocks, a tool call with its result, a tool
\* call without result and the final text, and its replay.
C19_Witness ==
    /\ turns # <<>>
    /\ Status(1) = StatusComplete
    /\ Len(Blocks(1)) = 3
    /\ IsToolCall(Blocks(1)[1]) /\ Blocks(1)[1].result # None
    /\ IsToolCall(Blocks(1)[2]) /\ Blocks(1)[2].result = None
    /\ Blocks(1)[3] = TextItem("final")
    /\ Replayed(1).content = Blocks(1)

\* A turn completed with no block ever added: the list shown and replayed
\* is the single empty text block.
C19_WitnessNoBlock ==
    /\ turns # <<>>
    /\ Status(1) = StatusComplete
    /\ turns[1].contentItems = <<>>
    /\ Blocks(1) = <<TextItem("")>>
    /\ Replayed(1).content = <<TextItem("")>>

---------------------------------------------------------------------------
(* C20 *)

\* The stored block has a known type and the members its type requires.
ValidBlock(block) ==
    \/ block.type = Some("text") /\ block.text # None
    \/ /\ block.type = Some("tool_use")
       /\ block.id # None
       /\ block.name # None
       /\ block.input # None

\* The block payload of the stored turn does not parse as a block sequence.
MalformedTurn(turn) ==
    /\ turn.assistant_blocks # None
    /\ \E i \in DOMAIN turn.assistant_blocks[1] : ~ValidBlock(turn.assistant_blocks[1][i])

\* C20: loading a session never shows an assistant message for a stored
\* turn whose block payload holds a block of unknown type or a block
\* without a required member.
C20_MalformedTurnRejected ==
    [][\A i \in DOMAIN sessions, storedTurns \in StoredHistories :
          LoadSession(sessions[i].id, storedTurns)
          => \A k \in DOMAIN storedTurns :
                MalformedTurn(storedTurns[k])
                => ~\E m \in DOMAIN messages' :
                      messages'[m].id = storedTurns[k].id \o "-assistant"]_vars

---------------------------------------------------------------------------
(* C21 *)

\* The message list holds the assistant message of the stored turn, with
\* the content.
ShowsAssistant(msgs, turn, content) ==
    \E m \in DOMAIN msgs :
        /\ msgs[m].id = turn.id \o "-assistant"
        /\ msgs[m].role = "assistant"
        /\ msgs[m].content = content

\* The blocks shown are the stored blocks, in order.
ShowsBlocks(msgs, turn) ==
    \E m \in DOMAIN msgs :
        /\ msgs[m].id = turn.id \o "-assistant"
        /\ msgs[m].role = "assistant"
        /\ [i \in DOMAIN msgs[m].content |-> StoredBlock(msgs[m].content[i])]
              = turn.assistant_blocks[1]

\* C21: loading a session shows, for every stored turn carrying a flat
\* string, an assistant message with one text block holding the string,
\* and for every stored turn carrying a well-formed block array, an
\* assistant message with the corresponding blocks in order.
C21_BothShapes ==
    [][\A i \in DOMAIN sessions, storedTurns \in StoredHistories :
          LoadSession(sessions[i].id, storedTurns)
          => \A k \in DOMAIN storedTurns :
                LET turn == storedTurns[k]
                IN  /\ Truthy(turn.assistant_content)
                       => ShowsAssistant(messages', turn,
                                         <<TextItem(turn.assistant_content[1])>>)
                    /\ (turn.assistant_blocks # None /\ ~MalformedTurn(turn))
                       => ShowsBlocks(messages', turn)]_vars

\* The same, for the block-array shape only.
C21_BlockArrayShape ==
    [][\A i \in DOMAIN sessions, storedTurns \in StoredHistories :
          LoadSession(sessions[i].id, storedTurns)
          => \A k \in DOMAIN storedTurns :
                (storedTurns[k].assistant_blocks # None /\ ~MalformedTurn(storedTurns[k]))
                => ShowsBlocks(messages', storedTurns[k])]_vars

---------------------------------------------------------------------------
(* C22 *)

\* A second, independent turn as onNew starts it at another time: other
\* message ids, no item, the placeholder shown.
SecondInstance ==
    [closure |-> [assistantMessageId |-> AssistantId(2),
                  sessionId |-> SessionName(2),
                  contentItems |-> <<>>,
                  currentTextIndex |-> NullIndex,
                  eventSource |-> "open",
                  sendMessage |-> "pending",
                  sessions |-> <<NewSession(2)>>,
                  generateTitle |-> "none"],
     content |-> <<TextItem("")>>,
     status |-> StatusRunning]

\* The state of a turn after the events, delivered in order
RECURSIVE Run(_, _)
Run(s, events) ==
    IF events = <<>> THEN s
    ELSE Run(Apply(s, Head(events)), Tail(events))

\* C22: the turn fed the recorded events and a second instance with other
\* ids fed the same events from its start show the same block list and the
\* same status.
C22_Deterministic ==
    turns # <<>>
    => /\ Run(SecondInstance, log).content = Blocks(1)
       /\ Run(SecondInstance, log).status = Status(1)
       /\ Run(SecondInstance, log).closure.contentItems = turns[1].contentItems

\* A recorded sequence ending with the terminal text: both instances are
\* complete with [Text, ToolCall A with result, Text "final"].
C22_Witness ==
    /\ log = <<TextDeltaEvent("x"), ToolCallEvent("A", "search", Some(QueryObject)),
               ToolResultEvent("A", "rA", FALSE), TextEvent("final")>>
    /\ Status(1) = StatusComplete
    /\ Run(SecondInstance, log).status = StatusComplete
    /\ Len(Blocks(1)) = 2
    /\ Run(SecondInstance, log).content = Blocks(1)

---------------------------------------------------------------------------
(* C23 *)

\* The session of the id is in the thread list and has no title.
Untitled(id) ==
    \E i \in DOMAIN sessions : sessions[i].id = id /\ sessions[i].title = None

\* sessions2 is sessions with at most the title of the session id changed.
OnlyTitleOf(id, sessions2) ==
    /\ Len(sessions2) = Len(sessions)
    /\ \A i \in DOMAIN sessions :
          IF sessions[i].id = id
          THEN sessions2[i] = [sessions[i] EXCEPT !.title = sessions2[i].title]
          ELSE sessions2[i] = sessions[i]

\* Stream events, stream error and send failure leave the sessions list as
\* it is; a successful generateTitle response changes only the title of the
\* turn's session, and a failed one changes nothing.
C23_Frame ==
    [][\A t \in DOMAIN turns :
          /\ ((\E kind \in EventKinds : Handles(t, kind))
              \/ StreamErrors(t) \/ SendFails(t))
             => sessions' = sessions
          /\ (turns[t].generateTitle = "pending" /\ turns'[t].generateTitle = "resolved")
             => /\ OnlyTitleOf(turns[t].sessionId, sessions')
                /\ ~Untitled(turns[t].sessionId)'
                /\ UNCHANGED <<messages, isRunning, sessionId>>
          /\ (turns[t].generateTitle = "pending" /\ turns'[t].generateTitle = "rejected")
             => UNCHANGED <<sessions, messages, isRunning, sessionId>>]_vars

\* The terminal text event requests a title if and only if the session of
\* the turn has no title.
C23_RequestIffUntitled ==
    [][\A t \in DOMAIN turns :
          Handles(t, "text")
          => (turns'[t].generateTitle = "pending" <=> Untitled(turns[t].sessionId))]_vars

\* C23: processing the stream events of a turn changes the sessions list
\* only through title generation on completion, which the terminal text
\* requests if and only if the session has no title.
C23_TitleGeneration ==
    [][\A t \in DOMAIN turns :
          /\ ((\E kind \in EventKinds : Handles(t, kind))
              \/ StreamErrors(t) \/ SendFails(t))
             => sessions' = sessions
          /\ Handles(t, "text")
             => (turns'[t].generateTitle = "pending" <=> Untitled(turns[t].sessionId))
          /\ (turns[t].generateTitle = "pending" /\ turns'[t].generateTitle = "resolved")
             => OnlyTitleOf(turns[t].sessionId, sessions')
          /\ (turns[t].generateTitle = "pending" /\ turns'[t].generateTitle = "rejected")
             => sessions' = sessions]_vars

---------------------------------------------------------------------------
(* C24 *)

\* The logged events the subscription dispatched: those up to and including
\* the first terminal text.
Dispatched(events) ==
    LET texts == {i \in DOMAIN events : events[i].kind = "text"}
    IN  IF texts = {} THEN events
        ELSE SubSeq(events, 1, CHOOSE i \in texts : \A j \in texts : i <= j)

\* Positions of the first tool_call of each id, and the ids in that order
FirstCalls(events) ==
    {i \in DOMAIN events :
        /\ events[i].kind = "tool_call"
        /\ \A j \in 1..(i - 1) : ~(events[j].kind = "tool_call" /\ events[j].id = events[i].id)}

RECURSIVE IdsFrom(_, _)
IdsFrom(events, i) ==
    IF i > Len(events) THEN <<>>
    ELSE (IF i \in FirstCalls(events) THEN <<events[i].id>> ELSE <<>>)
         \o IdsFrom(events, i + 1)

RegistrationOrder(events) == IdsFrom(events, 1)

\* Positions of the tool_result events applied to the id: those after its
\* first tool_call
AppliedResults(events, id) ==
    {q \in DOMAIN events :
        /\ events[q].kind = "tool_result"
        /\ events[q].tool_use_id = id
        /\ \E p \in FirstCalls(events) : p < q /\ events[p].id = id}

KeyedToolCalls == SelectSeq(keyed.content, IsToolCall)

\* The tool-call blocks of the keyed-map turn are in the order in which
\* their ids were first registered.
C24_RegistrationOrder ==
    [i \in DOMAIN KeyedToolCalls |-> KeyedToolCalls[i].toolCallId]
        = RegistrationOrder(Dispatched(log))

\* C24: in the keyed-map variant the tool-call blocks are in the order in
\* which their ids were first registered, and each shows the result and
\* isError of the tool_result most recently applied to its id.
C24_KeyedOrder ==
    /\ C24_RegistrationOrder
    /\ \A i \in DOMAIN KeyedToolCalls :
          LET events == Dispatched(log)
              applied == AppliedResults(events, KeyedToolCalls[i].toolCallId)
          IN  IF applied = {}
              THEN KeyedToolCalls[i].result = None /\ KeyedToolCalls[i].isError = None
              ELSE LET q == CHOOSE q \in applied : \A r \in applied : r <= q
                   IN  /\ KeyedToolCalls[i].result = Some(events[q].content)
                       /\ KeyedToolCalls[i].isError = Some(events[q].is_error)

---------------------------------------------------------------------------
(* C25 *)

NoToolCall(events) == \A i \in DOMAIN events : events[i].kind # "tool_call"

\* A text delta was dispatched before an empty terminal text.
EmptyFinalAfterDelta(events) ==
    \E i, j \in DOMAIN Dispatched(events) :
        /\ i < j
        /\ events[i].kind = "text_delta"
        /\ events[j].kind = "text"
        /\ events[j].content = ""

\* The two variants, fed the same events, show the same block list whenever
\* the events contain no tool_call.
C25_Original ==
    (turns # <<>> /\ NoToolCall(log)) => Blocks(1) = keyed.content

\* The events are text_delta, tool_call, text_delta.
DeltaCallDelta(events) ==
    /\ Len(events) = 3
    /\ events[1].kind = "text_delta"
    /\ events[2].kind = "tool_call"
    /\ events[3].kind = "text_delta"

\* C25: the index-tracking turn and the keyed-map turn, fed the same events,
\* show block lists of different length after text_delta, tool_call,
\* text_delta, and the same block list whenever the events contain no
\* tool_call and no empty terminal text after a text delta.
C25_VariantsDiffer ==
    /\ (turns # <<>> /\ DeltaCallDelta(log))
       => Len(Blocks(1)) # Len(keyed.content)
    /\ (turns # <<>> /\ NoToolCall(log) /\ ~EmptyFinalAfterDelta(log))
       => Blocks(1) = keyed.content

\* text_delta, tool_call, text_delta: the index-tracking turn shows
\* [Text x, ToolCall A, Text x], the keyed-map turn [Text xx, ToolCall A].
C25_Witness ==
    /\ log = <<TextDeltaEvent("x"), ToolCallEvent("A", "search", Some(QueryObject)),
               TextDeltaEvent("x")>>
    /\ Len(Blocks(1)) = 3
    /\ Len(keyed.content) = 2
    /\ Blocks(1)[3] = TextItem("x")
    /\ keyed.content[1] = TextItem("xx")

\* Two deltas and a final text, no tool call: both show [Text "final"].
C25_WitnessSame ==
    /\ log = <<TextDeltaEvent("x"), TextDeltaEvent("x"), TextEvent("final")>>
    /\ Blocks(1) = <<TextItem("final")>>
    /\ keyed.content = Blocks(1)

---------------------------------------------------------------------------
(* C26 *)

\* The turn submitted most recently.
LatestTurn == Len(turns)

\* C26: the running flag is true exactly when the assistant message of the
\* most recently submitted turn has status running.
C26_FlagMatchesStatus ==
    turns # <<>> => (isRunning <=> Status(LatestTurn) = StatusRunning)

\* C26, the case of an earlier turn: while the latest turn is running, the
\* flag stays true when the terminal text of an earlier turn is handled.
C26_EarlierTerminalKeepsFlag ==
    [][(/\ turns # <<>>
        /\ Status(LatestTurn) = StatusRunning
        /\ isRunning
        /\ nEvents' = nEvents + 1
        /\ lastEvent'.kind = "text"
        /\ lastEvent'.handled
        /\ lastEvent'.turn < LatestTurn)
       => isRunning']_vars

---------------------------------------------------------------------------
(* C27 *)

\* The open subscription of the running turn t handles a terminal text with
\* empty content.
EmptyFinal(t) ==
    /\ Status(t) = StatusRunning
    /\ turns[t].eventSource = "open"
    /\ Dispatch(t, TextEvent(""))

\* C27: a terminal text with empty content changes no block of a running
\* turn (the text accumulated from deltas is kept and no empty text block is
\* appended), the status becomes complete and the subscription is closed.
C27_EmptyFinalKeepsBlocks ==
    [][\A t \in DOMAIN turns :
          EmptyFinal(t)
          => /\ turns'[t].contentItems = turns[t].contentItems
             /\ Blocks(t)' = Blocks(t)
             /\ Status(t)' = StatusComplete
             /\ turns'[t].eventSource = "closed"]_vars

\* Text from a delta and a tool call are shown unchanged after an empty
\* terminal text completed the turn.
C27_Witness ==
    /\ turns # <<>>
    /\ lastEvent = [turn |-> 1, kind |-> "text", ok |-> TRUE, handled |-> TRUE]
    /\ Len(Blocks(1)) = 2
    /\ Blocks(1)[1] = TextItem("x")
    /\ Blocks(1)[2].type = "tool-call"
    /\ Status(1) = StatusComplete
    /\ turns[1].eventSource = "closed"

---------------------------------------------------------------------------
(* C28 *)

\* The step ends the submission t: its sendMessage resolves or rejects.
Finishes(t) ==
    /\ turns[t].sendMessage = "pending"
    /\ turns'[t].sendMessage # "pending"

\* C28: in the non-streaming variant a submission whose request fails leaves
\* the message list equal to the list before the submission; a successful one
\* leaves the list before the submission followed by the messages converted
\* from the returned turn; in both cases the running flag is false when the
\* submission has finished.
C28_PlainSubmission ==
    [][\A t \in DOMAIN turns :
          Finishes(t)
          => /\ turns'[t].sendMessage = "rejected"
                => messages' = turns[t].prev
             /\ turns'[t].sendMessage = "resolved"
                => messages' = turns[t].prev
                               \o convertTurnToMessagesPlain(turns'[t].turn[1])
             /\ ~isRunning']_vars

\* After a stored turn was loaded, a submission succeeded with a turn that
\* has both sides: its two messages follow the two loaded ones.
C28_Witness ==
    /\ Len(turns) = 1
    /\ turns[1].sendMessage = "resolved"
    /\ ~isRunning
    /\ Len(messages) = 4
    /\ messages[1].id = "t1-user"
    /\ messages[2].id = "t1-assistant"
    /\ messages[3].id = "r1-user"
    /\ messages[4].id = "r1-assistant"

\* After a stored turn was loaded, a submission failed: the two loaded
\* messages are the list again.
C28_WitnessFailed ==
    /\ Len(turns) = 1
    /\ turns[1].sendMessage = "rejected"
    /\ ~isRunning
    /\ Len(messages) = 2
    /\ messages = turns[1].prev

====
